---------------------------- MODULE Spec2Model ----------------------------
(***************************************************************************)
(* Stochastic unit layers of hdp_dbm/rbm_units.py: BaseLayer and its three *)
(* realizations BernoulliLayer, MultinomialLayer and GaussianLayer.        *)
(*                                                                         *)
(* A state is one layer object (self), the caller's numpy random state     *)
(* (rng) and the last method call made on the layer (op, args, ret,        *)
(* raised).  Every method is an operator from (self, rng, arguments) to    *)
(* the record [self, rng, ret, raised] of what the call leaves behind:     *)
(* the object after the call, the random state after the call, the         *)
(* returned value and the exception raised (NoError when none).            *)
(*                                                                         *)
(* Numbers.  Probabilities and uniform variates are fixed-point numbers    *)
(* with denominator Q (the integer p stands for p/Q); total inputs, biases *)
(* and normal variates are integers; sigma is sn/Q.  Results of sigmoid,   *)
(* softmax and the normalisation of MultinomialLayer.init are exact        *)
(* fractions <<numerator, denominator>>.  Tensors are sequences of rows,   *)
(* indexed from 1; tensor indices computed by the code (argmax, range,     *)
(* scatter_nd) keep their 0-based values.                                  *)
(***************************************************************************)
EXTENDS Integers, Sequences, FiniteSets, TLC

\* Bounds of the model.
MaxUnits == 2
MaxBatch == 2
MaxCells == 4
Q        == 2
MaxX     == 1
MaxDraws == 4

VARIABLES self, rng, op, args, ret, raised

vars == <<self, rng, op, args, ret, raised>>

-----------------------------------------------------------------------------
\* Values

NoError == "NoError"
NotImplementedError == "NotImplementedError"

None == [type |-> "None"]
Tensor(dtype, val) == [type |-> "Tensor", dtype |-> dtype, val |-> val]
NdArray(val) == [type |-> "ndarray", val |-> val]

Kinds == {"BaseLayer", "BernoulliLayer", "MultinomialLayer", "GaussianLayer"}
Concrete == Kinds \ {"BaseLayer"}
DTypes == {"float32", "float64"}
\* An activation is computed from x alone and has x's dtype, whatever it is.
XDType == "dtype of x"

Probs == 0 .. Q                \* p/Q in [0, 1]
Unif  == 0 .. (Q - 1)          \* u/Q in [0, 1)
XVals == (0 - 1) .. MaxX       \* total inputs, biases, normal variates
Sigmas == 0 .. (Q + 1)         \* sn/Q in [0, 1], and one value above 1

Vec(n, S) == [1 .. n -> S]
Mat(m, n, S) == [1 .. m -> [1 .. n -> S]]

\* What a call leaves behind.
Result(s, g, v, e) == [self |-> s, rng |-> g, ret |-> v, raised |-> e]

-----------------------------------------------------------------------------
\* Constructors

BaseLayer_new(kind, n_units, tf_dtype) ==
    [kind |-> kind, n_units |-> n_units, tf_dtype |-> tf_dtype]

GaussianLayer_new(sigma, n_units, tf_dtype) ==
    [kind |-> "GaussianLayer", n_units |-> n_units, tf_dtype |-> tf_dtype,
     sigma |-> sigma]

Layers ==
    { BaseLayer_new(k, n, d) :
        k \in Kinds \ {"GaussianLayer"}, n \in 1 .. MaxUnits, d \in DTypes }
    \cup
    { GaussianLayer_new(s, n, d) :
        s \in Sigmas, n \in 1 .. MaxUnits, d \in DTypes }

-----------------------------------------------------------------------------
\* The tensor and random-number primitives the methods call

\* The k-th variate of the caller's generator, counted from its seeding:
\* rng.rand yields uniforms in [0, 1), rng.randn yields normals.
Uniform(k) == ((k * (k + 3)) \div 2) % Q
Normal(k) == (((k * (k + 3)) \div 2) % (MaxX + 2)) - 1

RECURSIVE Pow(_, _)
Pow(a, n) == IF n = 0 THEN 1 ELSE a * Pow(a, n - 1)

\* e^x for an integer x as the fraction 19^x / 7^x (e ~ 19/7).
\* tf.nn.sigmoid(x) = e^x / (e^x + 1)
Sigmoid(x) ==
    IF x >= 0 THEN <<Pow(19, x), Pow(19, x) + Pow(7, x)>>
              ELSE <<Pow(7, 0 - x), Pow(7, 0 - x) + Pow(19, 0 - x)>>

RECURSIVE SumSeq(_)
SumSeq(s) == IF s = <<>> THEN 0 ELSE Head(s) + SumSeq(Tail(s))

MinOf(s) == CHOOSE v \in {s[k] : k \in DOMAIN s} : \A k \in DOMAIN s : v <= s[k]
MaxOf(s) == CHOOSE v \in {s[k] : k \in DOMAIN s} : \A k \in DOMAIN s : v >= s[k]

\* tf.nn.softmax over the last axis: e^(x_j) / sum_k e^(x_k), every term
\* scaled by the common factor 7^max / 19^min.
SoftmaxRow(row) ==
    LET lo == MinOf(row)
        hi == MaxOf(row)
        e  == [j \in DOMAIN row |-> Pow(19, row[j] - lo) * Pow(7, hi - row[j])]
    IN  [j \in DOMAIN row |-> <<e[j], SumSeq(e)>>]

\* tf.cumsum(row, axis=-1)
Cumsum(row) == [j \in DOMAIN row |-> SumSeq(SubSeq(row, 1, j))]

\* tf.argmax(row, axis=-1): the 0-based index of the first largest entry.
ArgMax(row) ==
    (CHOOSE k \in DOMAIN row :
        /\ \A j \in DOMAIN row : row[j] <= row[k]
        /\ \A j \in 1 .. (k - 1) : row[j] < row[k]) - 1

\* tf.scatter_nd(indices, updates, shape) for a 2-d shape: zeros, plus every
\* update added at its (0-based) index pair.
ScatterNd(indices, updates, shape) ==
    [i \in 1 .. shape[1] |->
        [j \in 1 .. shape[2] |->
            SumSeq([k \in DOMAIN indices |->
                IF indices[k] = <<i - 1, j - 1>> THEN updates[k] ELSE 0])]]

Shape(m) == <<Len(m), Len(m[1])>>

-----------------------------------------------------------------------------
\* BaseLayer

BaseLayer_init(s, g, noise) == Result(s, g, None, NotImplementedError)

BaseLayer_activation(s, g, x, b) == Result(s, g, None, NotImplementedError)

BaseLayer_make_rand(s, g, batch_size) == Result(s, g, None, NoError)

\* Variant: sample written like init and activation, as an abstract method.
BaseLayer_sample_raises(s, g, rand_data, means) ==
    Result(s, g, None, NotImplementedError)

BaseLayer_sample(s, g, rand_data, means) == Result(s, g, None, NoError)

-----------------------------------------------------------------------------
\* BernoulliLayer

\* noise: the n_units uniform variates tf.random_uniform yields.
BernoulliLayer_init(s, g, noise) ==
    Result(s, g, Tensor(s.tf_dtype, noise), NoError)

\* Variant: the bias added to a total input that already includes it.
BernoulliLayer_activation_adds_bias(s, g, x, b) ==
    Result(s, g,
           Tensor(XDType,
                  [i \in DOMAIN x |->
                      [j \in DOMAIN x[i] |-> Sigmoid(x[i][j] + b[j])]]),
           NoError)

BernoulliLayer_activation(s, g, x, b) ==
    Result(s, g,
           Tensor(XDType,
                  [i \in DOMAIN x |-> [j \in DOMAIN x[i] |-> Sigmoid(x[i][j])]]),
           NoError)

BernoulliLayer_make_rand(s, g, batch_size) ==
    Result(s, g + batch_size * s.n_units,
           NdArray([i \in 1 .. batch_size |->
                      [j \in 1 .. s.n_units |->
                          Uniform(g + (i - 1) * s.n_units + (j - 1))]]),
           NoError)

\* Variant: tf.less_equal in place of tf.less.
BernoulliLayer_sample_less_equal(s, g, rand_data, means) ==
    Result(s, g,
           Tensor(s.tf_dtype,
                  [i \in DOMAIN means |->
                      [j \in DOMAIN means[i] |->
                          IF rand_data[i][j] <= means[i][j] THEN 1 ELSE 0]]),
           NoError)

BernoulliLayer_sample(s, g, rand_data, means) ==
    Result(s, g,
           Tensor(s.tf_dtype,
                  [i \in DOMAIN means |->
                      [j \in DOMAIN means[i] |->
                          IF rand_data[i][j] < means[i][j] THEN 1 ELSE 0]]),
           NoError)

-----------------------------------------------------------------------------
\* MultinomialLayer

\* t /= tf.reduce_sum(t), as the fractions t[j] / sum; a zero sum leaves
\* the denominator 0 (the float division yields NaN, not an error).
MultinomialLayer_init(s, g, noise) ==
    Result(s, g,
           Tensor(s.tf_dtype,
                  [j \in DOMAIN noise |-> <<noise[j], SumSeq(noise)>>]),
           NoError)

MultinomialLayer_activation(s, g, x, b) ==
    Result(s, g,
           Tensor(XDType, [i \in DOMAIN x |-> SoftmaxRow(x[i])]),
           NoError)

\* Variant: one random value per unit, as in BernoulliLayer.make_rand.
MultinomialLayer_make_rand_per_unit(s, g, batch_size) ==
    Result(s, g + batch_size * s.n_units,
           NdArray([i \in 1 .. batch_size |->
                      [j \in 1 .. s.n_units |->
                          Uniform(g + (i - 1) * s.n_units + (j - 1))]]),
           NoError)

MultinomialLayer_make_rand(s, g, batch_size) ==
    Result(s, g + batch_size,
           NdArray([i \in 1 .. batch_size |-> <<Uniform(g + (i - 1))>>]),
           NoError)

\* Variant: tf.greater in place of tf.greater_equal.
MultinomialLayer_sample_greater(s, g, rand_data, means) ==
    LET cumprobs == [i \in DOMAIN means |-> Cumsum(means[i])]
        t == [i \in DOMAIN cumprobs |->
                [j \in DOMAIN cumprobs[i] |->
                    IF cumprobs[i][j] > rand_data[i][1] THEN 1 ELSE 0]]
        ind == [i \in DOMAIN t |-> ArgMax(t[i])]
        r == [i \in DOMAIN ind |-> i - 1]
        samples == ScatterNd([k \in DOMAIN r |-> <<r[k], ind[k]>>],
                             [k \in DOMAIN r |-> 1],
                             Shape(cumprobs))
    IN  Result(s, g, Tensor(s.tf_dtype, samples), NoError)

\* Variant: the thresholded cumulative sums returned as the sample, without
\* the argmax and the scatter.
MultinomialLayer_sample_mask(s, g, rand_data, means) ==
    LET cumprobs == [i \in DOMAIN means |-> Cumsum(means[i])]
        t == [i \in DOMAIN cumprobs |->
                [j \in DOMAIN cumprobs[i] |->
                    IF cumprobs[i][j] >= rand_data[i][1] THEN 1 ELSE 0]]
    IN  Result(s, g, Tensor(s.tf_dtype, t), NoError)

\* Variant: the random value drawn inside sample from the caller's
\* generator, the supplied rand_data ignored.
MultinomialLayer_sample_draws(s, g, rand_data, means) ==
    LET cumprobs == [i \in DOMAIN means |-> Cumsum(means[i])]
        t == [i \in DOMAIN cumprobs |->
                [j \in DOMAIN cumprobs[i] |->
                    IF cumprobs[i][j] >= Uniform(g + (i - 1)) THEN 1 ELSE 0]]
        ind == [i \in DOMAIN t |-> ArgMax(t[i])]
        r == [i \in DOMAIN ind |-> i - 1]
        samples == ScatterNd([k \in DOMAIN r |-> <<r[k], ind[k]>>],
                             [k \in DOMAIN r |-> 1],
                             Shape(cumprobs))
    IN  Result(s, g + Len(means), Tensor(s.tf_dtype, samples), NoError)

\* rand_data holds one value per row and is broadcast along the row.
MultinomialLayer_sample(s, g, rand_data, means) ==
    LET cumprobs == [i \in DOMAIN means |-> Cumsum(means[i])]
        t == [i \in DOMAIN cumprobs |->
                [j \in DOMAIN cumprobs[i] |->
                    IF cumprobs[i][j] >= rand_data[i][1] THEN 1 ELSE 0]]
        ind == [i \in DOMAIN t |-> ArgMax(t[i])]
        r == [i \in DOMAIN ind |-> i - 1]
        samples == ScatterNd([k \in DOMAIN r |-> <<r[k], ind[k]>>],
                             [k \in DOMAIN r |-> 1],
                             Shape(cumprobs))
    IN  Result(s, g, Tensor(s.tf_dtype, samples), NoError)

-----------------------------------------------------------------------------
\* GaussianLayer

\* noise: the n_units normal variates tf.random_normal yields.
GaussianLayer_init(s, g, noise) ==
    Result(s, g,
           Tensor(s.tf_dtype, [j \in DOMAIN noise |-> noise[j] * s.sigma]),
           NoError)

\* Variant: the two weights exchanged.
GaussianLayer_activation_swapped(s, g, x, b) ==
    Result(s, g,
           Tensor(XDType,
                  [i \in DOMAIN x |->
                      [j \in DOMAIN x[i] |->
                          x[i][j] * (Q - s.sigma) + b[j] * s.sigma]]),
           NoError)

\* Variant: 1. - sigma computed once and kept in the attribute.
GaussianLayer_activation_in_place(s, g, x, b) ==
    Result([s EXCEPT !.sigma = Q - s.sigma], g,
           Tensor(XDType,
                  [i \in DOMAIN x |->
                      [j \in DOMAIN x[i] |->
                          x[i][j] * s.sigma + b[j] * (Q - s.sigma)]]),
           NoError)

\* In units of 1/Q: sigma = s.sigma/Q and 1. - sigma = (Q - s.sigma)/Q.
\* b holds one value per unit and is broadcast along the batch.
GaussianLayer_activation(s, g, x, b) ==
    Result(s, g,
           Tensor(XDType,
                  [i \in DOMAIN x |->
                      [j \in DOMAIN x[i] |->
                          x[i][j] * s.sigma + b[j] * (Q - s.sigma)]]),
           NoError)

GaussianLayer_make_rand(s, g, batch_size) ==
    Result(s, g + batch_size * s.n_units,
           NdArray([i \in 1 .. batch_size |->
                      [j \in 1 .. s.n_units |->
                          Normal(g + (i - 1) * s.n_units + (j - 1))]]),
           NoError)

-----------------------------------------------------------------------------
\* Method resolution: a subclass's own method, else the one it inherits.

init(s, g, noise) ==
    CASE s.kind = "BernoulliLayer"   -> BernoulliLayer_init(s, g, noise)
      [] s.kind = "MultinomialLayer" -> MultinomialLayer_init(s, g, noise)
      [] s.kind = "GaussianLayer"    -> GaussianLayer_init(s, g, noise)
      [] OTHER                       -> BaseLayer_init(s, g, noise)

activation(s, g, x, b) ==
    CASE s.kind = "BernoulliLayer"   -> BernoulliLayer_activation(s, g, x, b)
      [] s.kind = "MultinomialLayer" -> MultinomialLayer_activation(s, g, x, b)
      [] s.kind = "GaussianLayer"    -> GaussianLayer_activation(s, g, x, b)
      [] OTHER                       -> BaseLayer_activation(s, g, x, b)

make_rand(s, g, batch_size) ==
    CASE s.kind = "BernoulliLayer"   -> BernoulliLayer_make_rand(s, g, batch_size)
      [] s.kind = "MultinomialLayer" -> MultinomialLayer_make_rand(s, g, batch_size)
      [] s.kind = "GaussianLayer"    -> GaussianLayer_make_rand(s, g, batch_size)
      [] OTHER                       -> BaseLayer_make_rand(s, g, batch_size)

sample(s, g, rand_data, means) ==
    CASE s.kind = "BernoulliLayer"   -> BernoulliLayer_sample(s, g, rand_data, means)
      [] s.kind = "MultinomialLayer" -> MultinomialLayer_sample(s, g, rand_data, means)
      [] OTHER                       -> BaseLayer_sample(s, g, rand_data, means)

-----------------------------------------------------------------------------
\* The calls a caller makes

BatchSizes == { m \in 1 .. MaxBatch : m * self.n_units <= MaxCells }

\* The variates the framework's generator may yield to init.
InitNoise ==
    IF self.kind = "GaussianLayer" THEN Vec(self.n_units, XVals)
                                   ELSE Vec(self.n_units, Unif)

\* The randomness and the activations a caller may feed to sample.
RandData(m) ==
    CASE self.kind = "MultinomialLayer" -> Mat(m, 1, Unif)
      [] OTHER                          -> Mat(m, self.n_units, Unif)

Means(m) ==
    CASE self.kind \in {"BernoulliLayer", "MultinomialLayer"}
                -> Mat(m, self.n_units, Probs)
      [] OTHER  -> Mat(m, self.n_units, {0, Q})

Returns(name, a, r) ==
    /\ self' = r.self
    /\ rng' = r.rng
    /\ ret' = r.ret
    /\ raised' = r.raised
    /\ op' = name
    /\ args' = a

Init ==
    /\ self \in Layers
    /\ rng = 0
    /\ op = "__init__"
    /\ args = <<>>
    /\ ret = None
    /\ raised = NoError

\* The caller makes one call at a time: the next call is made once the
\* value returned by the last one has been taken.
Ready == op \in {"__init__", "idle"}

Call_init ==
    /\ Ready
    /\ \E noise \in InitNoise :
        Returns("init", <<noise>>, init(self, rng, noise))

Call_activation ==
    /\ Ready
    /\ \E m \in BatchSizes :
        \E x \in Mat(m, self.n_units, XVals), b \in Vec(self.n_units, XVals) :
            Returns("activation", <<x, b>>, activation(self, rng, x, b))

Call_make_rand ==
    /\ Ready
    /\ \E m \in BatchSizes :
        /\ make_rand(self, rng, m).rng <= MaxDraws
        /\ Returns("make_rand", <<m>>, make_rand(self, rng, m))

Call_sample ==
    /\ Ready
    /\ \E m \in BatchSizes :
        \E rand_data \in RandData(m), means \in Means(m) :
            Returns("sample", <<rand_data, means>>,
                    sample(self, rng, rand_data, means))

\* The caller takes the returned value (or handles the exception); the
\* layer and the random state stay as the call left them.
Taken ==
    /\ ~Ready
    /\ op' = "idle"
    /\ args' = <<>>
    /\ ret' = None
    /\ raised' = NoError
    /\ UNCHANGED <<self, rng>>

Next ==
    \/ Call_init
    \/ Call_activation
    \/ Call_make_rand
    \/ Call_sample
    \/ Taken

Spec == Init /\ [][Next]_vars


-----------------------------------------------------------------------------
\* Properties

Methods == {"init", "activation", "make_rand", "sample"}

Called(kind, name) == self.kind = kind /\ op = name

RECURSIVE PrefixSum(_, _)
PrefixSum(row, k) == IF k = 0 THEN 0 ELSE PrefixSum(row, k - 1) + row[k]

Ones(row) == Cardinality({j \in DOMAIN row : row[j] = 1})
Zeros(row) == Cardinality({j \in DOMAIN row : row[j] = 0})

RngStates == 0 .. MaxDraws

\* C1: every concrete layer kind provides init, activation, make_rand and
\* sample, each completing with a value; in particular sample never
\* returns None.
C1_EveryLayerProvidesAllFour ==
    (self.kind \in Concrete /\ op \in Methods)
        => (raised = NoError /\ ret.type # "None")

\* C2: MultinomialLayer.sample is inverse-CDF sampling: in every row whose
\* prefix sums reach the row's random value u, the 1 is at the smallest index
\* whose prefix sum is >= u and every other entry is 0.
C2_InverseCDF ==
    Called("MultinomialLayer", "sample") =>
        LET rand_data == args[1]
            means == args[2]
        IN  \A i \in DOMAIN means :
                LET u == rand_data[i][1]
                    reach == {k \in DOMAIN means[i] : PrefixSum(means[i], k) >= u}
                IN  reach # {} =>
                        \A j \in DOMAIN means[i] :
                            ret.val[i][j] =
                                IF j \in reach /\ \A k \in reach : j <= k
                                THEN 1 ELSE 0

\* A two-row batch whose rows select different indices, one of them not the
\* first.
C2_Witness ==
    /\ Called("MultinomialLayer", "sample")
    /\ Len(args[2]) = 2 /\ Len(args[2][1]) = 2
    /\ args[2][1][1] < args[1][1][1]
    /\ args[2][1][1] + args[2][1][2] >= args[1][1][1]
    /\ ret.val[1] = <<0, 1>>
    /\ ret.val[2] = <<1, 0>>

\* C3: MultinomialLayer.sample returns a one-hot row for every row of every
\* input, of the length of the means row, also when the cumulative sum never
\* reaches the random value.
C3_OneHot ==
    Called("MultinomialLayer", "sample") =>
        LET means == args[2]
        IN  /\ raised = NoError
            /\ Len(ret.val) = Len(means)
            /\ \A i \in DOMAIN means :
                  /\ Len(ret.val[i]) = Len(means[i])
                  /\ Ones(ret.val[i]) = 1
                  /\ Zeros(ret.val[i]) = Len(means[i]) - 1

\* A row whose cumulative sum never reaches its random value: the 1 falls
\* back to index 0.
C3_Witness ==
    /\ Called("MultinomialLayer", "sample")
    /\ Len(args[2][1]) = 2
    /\ \A k \in 1 .. 2 : PrefixSum(args[2][1], k) < args[1][1][1]
    /\ ret.val[1] = <<1, 0>>

\* C4: BernoulliLayer.sample is the elementwise strict comparison: the
\* output has the shape of the inputs, every entry is 0 or 1, and an entry is
\* 1 exactly when its random value is below its mean; so an entry whose
\* random value equals its mean is 0 and a mean of 0 never yields 1.
C4_StrictLess ==
    Called("BernoulliLayer", "sample") =>
        LET rand_data == args[1]
            means == args[2]
        IN  /\ Len(ret.val) = Len(means)
            /\ \A i \in DOMAIN means :
                  /\ Len(ret.val[i]) = Len(means[i])
                  /\ \A j \in DOMAIN means[i] :
                        /\ ret.val[i][j] \in {0, 1}
                        /\ ret.val[i][j] = 1 <=> rand_data[i][j] < means[i][j]
                        /\ rand_data[i][j] = means[i][j] => ret.val[i][j] = 0
                        /\ means[i][j] = 0 => ret.val[i][j] = 0

\* A batch with an entry whose random value equals its positive mean, an
\* entry of mean 0 and an entry below its mean.
C4_Witness ==
    /\ Called("BernoulliLayer", "sample")
    /\ Len(args[2]) = 2 /\ Len(args[2][1]) = 2
    /\ args[1][1][1] = args[2][1][1] /\ args[2][1][1] > 0
    /\ args[2][1][2] = 0
    /\ args[1][2][1] < args[2][2][1]
    /\ ret.val[1] = <<0, 0>>
    /\ ret.val[2][1] = 1

\* C5: init and activation of a plain BaseLayer end in NotImplementedError;
\* no operation of the three concrete layers does, and BaseLayer.make_rand
\* and BaseLayer.sample complete without an error.
C5_OnlyBaseRaises ==
    /\ (self.kind = "BaseLayer" /\ op \in {"init", "activation"})
            => raised = NotImplementedError
    /\ (self.kind = "BaseLayer" /\ op \in {"make_rand", "sample"})
            => raised = NoError
    /\ (self.kind \in Concrete /\ op \in Methods) => raised = NoError

C5_Witness ==
    /\ Called("BaseLayer", "activation")
    /\ raised = NotImplementedError

\* C6 as claimed: no operation changes any state other than its returned
\* value: neither the layer's attributes nor the caller's random state.
C6_NoOperationChangesState ==
    [][self' = self /\ rng' = rng]_vars

\* C6 as amended: every operation leaves the layer's attributes as the
\* constructor set them, and init, activation and sample leave the caller's
\* random state alone; make_rand of a concrete layer advances it.
C6_AttributesUnchanged ==
    [][/\ self' = self
       /\ op' \in {"init", "activation", "sample"} => rng' = rng
       /\ (op' = "make_rand" /\ self.kind \in Concrete) => rng' > rng]_vars

\* A GaussianLayer through an activation and, earlier, a make_rand.
C6_Witness ==
    /\ Called("GaussianLayer", "activation")
    /\ self.sigma = 1
    /\ rng > 0

\* C7: GaussianLayer.activation is x*sigma + b*(1 - sigma): it differs from b
\* by sigma times (x - b); with sigma = 1 it is x for every b and with
\* sigma = 0 it is b for every x.  (Values in units of 1/Q.)
C7_LinearInterpolation ==
    Called("GaussianLayer", "activation") =>
        LET x == args[1]
            b == args[2]
        IN  \A i \in DOMAIN x : \A j \in DOMAIN x[i] :
                /\ ret.val[i][j] - Q * b[j] = self.sigma * (x[i][j] - b[j])
                /\ self.sigma = Q => ret.val[i][j] = Q * x[i][j]
                /\ self.sigma = 0 => ret.val[i][j] = Q * b[j]

C7_Witness ==
    /\ Called("GaussianLayer", "activation")
    /\ self.sigma = Q
    /\ args[1][1][1] # args[2][1]
    /\ ret.val[1][1] = Q * args[1][1][1]

\* C8: make_rand returns batch_size x n_units values for BernoulliLayer and
\* GaussianLayer and batch_size x 1 values for MultinomialLayer, the shape
\* the layer's own sample takes together with batch_size x n_units means.
C8_MakeRandShape ==
    (op = "make_rand" /\ self.kind \in Concrete) =>
        LET batch_size == args[1]
            width == IF self.kind = "MultinomialLayer" THEN 1 ELSE self.n_units
        IN  /\ ret.type = "ndarray"
            /\ Len(ret.val) = batch_size
            /\ \A i \in 1 .. batch_size : Len(ret.val[i]) = width
            /\ self.kind \in {"BernoulliLayer", "MultinomialLayer"} =>
                  \A means \in Means(batch_size) :
                      LET r == sample(self, rng, ret.val, means)
                      IN  /\ r.raised = NoError
                          /\ Shape(r.ret.val) = <<batch_size, self.n_units>>

C8_Witness ==
    /\ Called("MultinomialLayer", "make_rand")
    /\ self.n_units = 2
    /\ args[1] = 2
    /\ Shape(ret.val) = <<2, 1>>

\* C9: the activation of BernoulliLayer and MultinomialLayer is the same for
\* every bias; that of GaussianLayer changes with the bias (unless sigma = 1).
C9_BiasIgnored ==
    /\ (op = "activation" /\ self.kind \in {"BernoulliLayer", "MultinomialLayer"})
         => \A b2 \in Vec(self.n_units, XVals) :
                activation(self, rng, args[1], b2).ret = ret
    /\ (Called("GaussianLayer", "activation") /\ self.sigma # Q)
         => \E b2 \in Vec(self.n_units, XVals) :
                activation(self, rng, args[1], b2).ret # ret

C9_Witness ==
    /\ Called("BernoulliLayer", "activation")
    /\ args[2][1] = MaxX
    /\ args[1][1][1] = 0
    /\ ret.val[1][1] = <<1, 2>>

\* C10: sample of BernoulliLayer and MultinomialLayer returns what its
\* rand_data and means determine, whatever state earlier calls left the
\* caller's generator in; sample, activation and init do not advance the
\* generator, make_rand of a concrete layer does.
C10_SampleDeterministic ==
    [][/\ (op' = "sample" /\ self.kind \in {"BernoulliLayer", "MultinomialLayer"})
            => \A g \in RngStates :
                   sample(self, g, args'[1], args'[2]).ret = ret'
       /\ op' \in {"sample", "activation", "init"} => rng' = rng
       /\ (op' = "make_rand" /\ self.kind \in Concrete) => rng' # rng]_vars

\* A sample call made after make_rand has advanced the generator.
C10_Witness ==
    /\ Called("MultinomialLayer", "sample")
    /\ rng > 0
    /\ Len(args[2]) = 2

=============================================================================
